---- MODULE Spec2Model ----
(***************************************************************************)
(* The persistence schema of core/main/models.py: CustomUser (Account),    *)
(* Customer and Order, with the integrity rules their field declarations   *)
(* install: unique columns, the one-to-one and many-to-one references,     *)
(* on_delete=CASCADE, the fixed-point amount and the callable default of   *)
(* Order.time.                                                             *)
(*                                                                         *)
(* A row is written either directly (Model.save / objects.create, which    *)
(* runs no validators) or after Model.full_clean (what a form or a         *)
(* serializer does), which runs the field validators and validate_unique.  *)
(* A delete collects the dependent rows and removes them, dependents       *)
(* first, inside one transaction.                                          *)
(*                                                                         *)
(* A failed operation reports the set of its causes: "UniquenessViolation" *)
(* (a duplicate key, found by validate_unique or by the unique index),     *)
(* "ValidationError" (a field value outside its declared form) and         *)
(* "ReferenceError" (a reference to a row that does not exist).  The empty *)
(* set is success.                                                         *)
(***************************************************************************)
EXTENDS Integers, FiniteSets, Sequences, TLC

VARIABLES
    accounts,   \* committed CustomUser rows  [id, email, phone]
    customers,  \* committed Customer rows    [id, user, code]
    orders,     \* committed Order rows       [id, customer, amount, time]
    nextId,     \* the auto-increment primary key of each table
    now,        \* the clock timezone.now reads
    tx,         \* the delete transaction in progress, or NoTx
    pc,         \* per caller: "idle", or "cleaned" between full_clean and save
    req,        \* per caller: the instance that passed full_clean
    result      \* what the last operation returned or raised

vars == <<accounts, customers, orders, nextId, now, tx, pc, req, result>>

----------------------------------------------------------------------------
(* Bounds of the model *)

MaxRows == 3          \* rows inserted over a run, in the three tables together
MaxCascadeRows == 6   \* the same, where only the references are varied
MaxConcRows == 3      \* the same, for the concurrent callers
MaxTime == 1     \* the last instant of the clock

(* Program constants *)

max_digits == 10
decimal_places == 2

----------------------------------------------------------------------------
(* Input values *)

Emails == {"a@x.com", "b@x.com"}
Phones == {"", "123"}
Codes == {"C1", "C2"}
Callers == {1, 2}
Times == 0..MaxTime
\* The time argument of Create Order: omitted, or an instant.
NoTime == [given |-> FALSE]
TimeArgs == {NoTime} \cup {[given |-> TRUE, at |-> t] : t \in Times}
Roundings == {"half_even", "half_up"}

\* An amount is sign, whole part and thousandths: one fractional digit more
\* than the column keeps, so that an over-precise input can be written.
Amt(n, w, m) == [neg |-> n, whole |-> w, milli |-> m]

Amounts ==
    { Amt(FALSE, 19, 990),          \* 19.99
      Amt(TRUE, 0, 125),            \* -0.125, a rounding tie
      Amt(FALSE, 99999999, 995),    \* 99999999.995, rounds up to 100000000.00
      Amt(FALSE, 100000000, 0) }    \* 100000000.00, nine whole digits

Ids(S) == {r.id : r \in S}

\* The rows inserted so far, and the primary keys a table has issued.
Inserted == (nextId.account - 1) + (nextId.customer - 1) + (nextId.order - 1)
Issued(table) == 1..(nextId[table] - 1)

NoTx == [stage |-> "none"]
NoReq == [kind |-> "none"]

----------------------------------------------------------------------------
(* Field rules: what Model.full_clean checks *)

\* blank=False on CustomUser.phone: the empty string is rejected by validation.
BlankPhone(phone) == phone = ""

\* validate_unique on CustomUser.email: a SELECT for a row with the value.
EmailInUse(accts, email) == \E a \in accts : a.email = email

\* validate_unique on Customer.user (one-to-one) and on Customer.code.
UserInUse(custs, user) == \E c \in custs : c.user = user
CodeInUse(custs, code) == \E c \in custs : c.code = code

\* The validation of a reference field: the referenced row exists.
RowExists(rows, id) == id \in Ids(rows)

\* DecimalValidator(max_digits, decimal_places): no more fractional digits than
\* decimal_places, no more whole digits than max_digits - decimal_places.
WholeLimit == 10 ^ (max_digits - decimal_places)
DecimalValid(a) == a.milli % 10 = 0 /\ a.whole < WholeLimit

\* full_clean gathers the errors of clean_fields and of validate_unique; a field
\* that failed clean_fields is left out of validate_unique.
CleanAccount(accts, email, phone) ==
    (IF BlankPhone(phone) THEN {"ValidationError"} ELSE {})
    \cup (IF EmailInUse(accts, email) THEN {"UniquenessViolation"} ELSE {})

CleanCustomer(accts, custs, user, code) ==
    (IF ~RowExists(accts, user) THEN {"ReferenceError"}
     ELSE IF UserInUse(custs, user) THEN {"UniquenessViolation"} ELSE {})
    \cup (IF CodeInUse(custs, code) THEN {"UniquenessViolation"} ELSE {})

CleanOrder(custs, customer, amount) ==
    (IF ~RowExists(custs, customer) THEN {"ReferenceError"} ELSE {})
    \cup (IF ~DecimalValid(amount) THEN {"ValidationError"} ELSE {})

----------------------------------------------------------------------------
(* Column rules: what the INSERT itself enforces *)

\* Mutant: the email column has no unique index.
EmailIndexHas_absent(accts, email) == FALSE

\* The unique index of CustomUser.email.
EmailIndexHas(accts, email) == \E a \in accts : a.email = email

\* Mutant: the reference is a plain foreign key, without the unique index.
UserIndexHas_absent(custs, user) == FALSE

\* The unique index of Customer.user_id (OneToOneField).
UserIndexHas(custs, user) == \E c \in custs : c.user = user

\* Mutant: the code column has no unique index.
CodeIndexHas_absent(custs, code) == FALSE

\* The unique index of Customer.code.
CodeIndexHas(custs, code) == \E c \in custs : c.code = code

\* The foreign-key constraints of Customer.user_id and Order.customer_id.
UserKeyHolds(accts, user) == user \in Ids(accts)
CustomerKeyHolds(custs, customer) == customer \in Ids(custs)

\* Mutant: the amount is stored as given, without quantizing.
Quantize_raw(a, rounding) == a

\* The amount as the column stores it: quantized to decimal_places digits.  A
\* tie is rounded as the database backend rounds it.
Quantize(a, rounding) ==
    LET c0 == a.milli \div 10
        r  == a.milli % 10
        up == r > 5 \/ (r = 5 /\ (rounding = "half_up" \/ c0 % 2 = 1))
        c  == IF up THEN c0 + 1 ELSE c0
    IN  Amt(a.neg, IF c = 100 THEN a.whole + 1 ELSE a.whole, (c % 100) * 10)

\* The quantized amount has at most max_digits digits.
FitsColumn(a) == a.whole < WholeLimit

\* Mutant: the default is a value computed once, when the schema is defined.
DefaultTime_frozen(clock) == 0

\* The default of Order.time is the callable timezone.now: read at each call.
DefaultTime(clock) == clock

\* The statement fails on the first constraint it breaks: a unique index is
\* checked as the row is written, a foreign key after it.
InsertAccount(accts, email) ==
    IF EmailIndexHas(accts, email) THEN {"UniquenessViolation"} ELSE {}

\* Mutant: the save relies on the check full_clean made.
InsertCustomer_unchecked(accts, custs, user, code) == {}

InsertCustomer(accts, custs, user, code) ==
    IF UserIndexHas(custs, user) \/ CodeIndexHas(custs, code)
    THEN {"UniquenessViolation"}
    ELSE IF ~UserKeyHolds(accts, user) THEN {"ReferenceError"}
    ELSE {}

InsertOrder(custs, customer, stored) ==
    IF ~FitsColumn(stored) THEN {"ValidationError"}
    ELSE IF ~CustomerKeyHolds(custs, customer) THEN {"ReferenceError"}
    ELSE {}

----------------------------------------------------------------------------
(* The cascade of a delete: what the collector gathers for the rows removed *)

\* Mutant: the Customers of a deleted Account are left in place.
CollectCustomers_none(acctIds, custs) == {}

\* Customer.user has on_delete=CASCADE: the Customers of the deleted Accounts.
CollectCustomers(acctIds, custs) == {c \in custs : c.user \in acctIds}

\* Mutant: the Orders of a deleted Customer are left in place.
CollectOrders_none(custIds, ords) == {}

\* Order.customer has on_delete=CASCADE: the Orders of the deleted Customers.
CollectOrders(custIds, ords) == {o \in ords : o.customer \in custIds}

\* Mutant: the cascade also runs from the Customer to its CustomUser.
CollectOwners_cascade(custs, accts) == {a \in accts : \E c \in custs : c.user = a.id}

\* The reference of a Customer to its CustomUser points upward: removing the
\* Customer gathers no CustomUser.
CollectOwners(custs, accts) == {}

----------------------------------------------------------------------------
Init ==
    /\ accounts = {}
    /\ customers = {}
    /\ orders = {}
    /\ nextId = [account |-> 1, customer |-> 1, order |-> 1]
    /\ now = 0
    /\ tx = NoTx
    /\ pc = [p \in Callers |-> "idle"]
    /\ req = [p \in Callers |-> NoReq]
    /\ result = [op |-> "none", errors |-> {}]

\* The clock advances.
Tick ==
    /\ now < MaxTime
    /\ now' = now + 1
    /\ result' = [op |-> "tick", errors |-> {}]
    /\ UNCHANGED <<accounts, customers, orders, nextId, tx, pc, req>>

----------------------------------------------------------------------------
(* The writes of one row, shared by the create operations and the callers *)

WriteAccount(email, phone, errors, op, args) ==
    /\ result' = [op |-> op, errors |-> errors, args |-> args]
    /\ IF errors = {}
       THEN /\ accounts' = accounts \cup
                    {[id |-> nextId.account, email |-> email, phone |-> phone]}
            /\ nextId' = [nextId EXCEPT !.account = @ + 1]
       ELSE UNCHANGED <<accounts, nextId>>
    /\ UNCHANGED <<customers, orders, now, tx>>

WriteCustomer(user, code, errors, op, args) ==
    /\ result' = [op |-> op, errors |-> errors, args |-> args]
    /\ IF errors = {}
       THEN /\ customers' = customers \cup
                    {[id |-> nextId.customer, user |-> user, code |-> code]}
            /\ nextId' = [nextId EXCEPT !.customer = @ + 1]
       ELSE UNCHANGED <<customers, nextId>>
    /\ UNCHANGED <<accounts, orders, now, tx>>

----------------------------------------------------------------------------
(* Create operations, each one statement in autocommit.  validate says        *)
(* whether full_clean runs before the save.                                   *)

CreateAccount(email, phone, validate) ==
    /\ tx = NoTx
    /\ LET cleaned == IF validate THEN CleanAccount(accounts, email, phone) ELSE {}
           errors  == IF cleaned # {} THEN cleaned ELSE InsertAccount(accounts, email)
       IN  WriteAccount(email, phone, errors, "create_account", [email |-> email])
    /\ UNCHANGED <<pc, req>>

CreateCustomer(user, code, validate) ==
    /\ tx = NoTx
    /\ LET cleaned == IF validate THEN CleanCustomer(accounts, customers, user, code)
                      ELSE {}
           errors  == IF cleaned # {} THEN cleaned
                      ELSE InsertCustomer(accounts, customers, user, code)
       IN  WriteCustomer(user, code, errors, "create_customer",
                         [user |-> user, code |-> code])
    /\ UNCHANGED <<pc, req>>

CreateOrder(customer, amount, time, validate, rounding) ==
    /\ tx = NoTx
    /\ LET at      == IF time.given THEN time.at ELSE DefaultTime(now)
           cleaned == IF validate THEN CleanOrder(customers, customer, amount) ELSE {}
           stored  == Quantize(amount, rounding)
           errors  == IF cleaned # {} THEN cleaned
                      ELSE InsertOrder(customers, customer, stored)
       IN  /\ result' = [op |-> "create_order", errors |-> errors,
                         args |-> [amount |-> amount, time |-> time,
                                   validate |-> validate]]
           /\ IF errors = {}
              THEN /\ orders' = orders \cup
                           {[id |-> nextId.order, customer |-> customer,
                             amount |-> stored, time |-> at]}
                   /\ nextId' = [nextId EXCEPT !.order = @ + 1]
              ELSE UNCHANGED <<orders, nextId>>
    /\ UNCHANGED <<accounts, customers, now, tx, pc, req>>

----------------------------------------------------------------------------
(* Delete operations: collect, then remove inside one transaction, the       *)
(* dependent rows first.  The result of a delete counts the rows removed.    *)

BeginTx(kind, id, delA, delC) ==
    LET delO == CollectOrders(Ids(delC), orders)
    IN  /\ tx' = [stage |-> "orders", kind |-> kind, id |-> id,
                  delA |-> delA, delC |-> delC, delO |-> delO,
                  wA |-> accounts, wC |-> customers, wO |-> orders]
        /\ result' = [op |-> "begin", errors |-> {}]
        /\ UNCHANGED <<accounts, customers, orders, nextId, now, pc, req>>

DeleteAccount(a) ==
    /\ tx = NoTx
    /\ a \in accounts
    /\ BeginTx("account", a.id, {a}, CollectCustomers({a.id}, customers))

DeleteCustomer(c) ==
    /\ tx = NoTx
    /\ c \in customers
    /\ BeginTx("customer", c.id, CollectOwners({c}, accounts), {c})

TxDeleteOrders ==
    /\ tx.stage = "orders"
    /\ tx' = [tx EXCEPT !.stage = "customers", !.wO = @ \ tx.delO]
    /\ result' = [op |-> "step", errors |-> {}]
    /\ UNCHANGED <<accounts, customers, orders, nextId, now, pc, req>>

TxDeleteCustomers ==
    /\ tx.stage = "customers"
    /\ tx' = [tx EXCEPT !.stage = "accounts", !.wC = @ \ tx.delC]
    /\ result' = [op |-> "step", errors |-> {}]
    /\ UNCHANGED <<accounts, customers, orders, nextId, now, pc, req>>

TxDeleteAccounts ==
    /\ tx.stage = "accounts"
    /\ tx' = [tx EXCEPT !.stage = "commit", !.wA = @ \ tx.delA]
    /\ result' = [op |-> "step", errors |-> {}]
    /\ UNCHANGED <<accounts, customers, orders, nextId, now, pc, req>>

TxCommit ==
    /\ tx.stage = "commit"
    /\ accounts' = tx.wA
    /\ customers' = tx.wC
    /\ orders' = tx.wO
    /\ tx' = NoTx
    /\ result' = [op |-> "delete_" \o tx.kind, errors |-> {}, id |-> tx.id,
                  deleted |-> [account  |-> Cardinality(accounts \ tx.wA),
                               customer |-> Cardinality(customers \ tx.wC),
                               order    |-> Cardinality(orders \ tx.wO)]]
    /\ UNCHANGED <<nextId, now, pc, req>>

\* The process or the connection dies inside the transaction: it is rolled back.
TxCrash ==
    /\ tx # NoTx
    /\ tx' = NoTx
    /\ result' = [op |-> "crash", errors |-> {}, kind |-> tx.kind,
                  stage |-> tx.stage]
    /\ UNCHANGED <<accounts, customers, orders, nextId, now, pc, req>>

----------------------------------------------------------------------------
(* Two callers, each running full_clean and then save as separate steps *)

FullCleanAccount(p, email, phone) ==
    /\ pc[p] = "idle"
    /\ LET errors == CleanAccount(accounts, email, phone)
       IN  /\ result' = [op |-> "full_clean", errors |-> errors]
           /\ IF errors = {}
              THEN /\ pc' = [pc EXCEPT ![p] = "cleaned"]
                   /\ req' = [req EXCEPT ![p] =
                                [kind |-> "account", email |-> email, phone |-> phone]]
              ELSE UNCHANGED <<pc, req>>
    /\ UNCHANGED <<accounts, customers, orders, nextId, now, tx>>

FullCleanCustomer(p, user, code) ==
    /\ pc[p] = "idle"
    /\ LET errors == CleanCustomer(accounts, customers, user, code)
       IN  /\ result' = [op |-> "full_clean", errors |-> errors]
           /\ IF errors = {}
              THEN /\ pc' = [pc EXCEPT ![p] = "cleaned"]
                   /\ req' = [req EXCEPT ![p] =
                                [kind |-> "customer", user |-> user, code |-> code]]
              ELSE UNCHANGED <<pc, req>>
    /\ UNCHANGED <<accounts, customers, orders, nextId, now, tx>>

SaveAccount(p) ==
    /\ pc[p] = "cleaned"
    /\ req[p].kind = "account"
    /\ tx = NoTx
    /\ WriteAccount(req[p].email, req[p].phone, InsertAccount(accounts, req[p].email),
                    "save_account", [email |-> req[p].email])
    /\ pc' = [pc EXCEPT ![p] = "idle"]
    /\ req' = [req EXCEPT ![p] = NoReq]

SaveCustomer(p) ==
    /\ pc[p] = "cleaned"
    /\ req[p].kind = "customer"
    /\ tx = NoTx
    /\ WriteCustomer(req[p].user, req[p].code,
                     InsertCustomer(accounts, customers, req[p].user, req[p].code),
                     "save_customer", [user |-> req[p].user, code |-> req[p].code])
    /\ pc' = [pc EXCEPT ![p] = "idle"]
    /\ req' = [req EXCEPT ![p] = NoReq]

----------------------------------------------------------------------------
(* Specifications *)

\* The create operations over the given input values.
Creates(phones, amounts, times, validates) ==
    \/ \E e \in Emails, ph \in phones, v \in validates : CreateAccount(e, ph, v)
    \/ \E u \in Issued("account"), c \in Codes, v \in validates :
          CreateCustomer(u, c, v)
    \/ \E c \in Issued("customer"), a \in amounts, t \in times, v \in validates,
          r \in Roundings : CreateOrder(c, a, t, v, r)

\* The delete operations and the steps of their transaction.
Deletes ==
    \/ \E a \in accounts : DeleteAccount(a)
    \/ \E c \in customers : DeleteCustomer(c)
    \/ TxDeleteOrders
    \/ TxDeleteCustomers
    \/ TxDeleteAccounts
    \/ TxCommit
    \/ TxCrash

\* Every operation, one caller at a time.
Next ==
    \/ Tick
    \/ Creates(Phones, Amounts, TimeArgs, BOOLEAN) /\ Inserted' <= MaxRows
    \/ Deletes

Spec == Init /\ [][Next]_vars

\* The same operations on more rows, with one valid value for the fields the
\* cascade does not read.
NextCascade ==
    \/ Creates({"123"}, {Amt(FALSE, 19, 990)}, {NoTime}, {FALSE})
       /\ Inserted' <= MaxCascadeRows
    \/ Deletes

SpecCascade == Init /\ [][NextCascade]_vars

\* Two callers creating Accounts and Customers, interleaved step by step.
NextConc ==
    \/ \E p \in Callers, e \in Emails, ph \in Phones : FullCleanAccount(p, e, ph)
    \/ \E p \in Callers, u \in Issued("account"), c \in Codes :
          FullCleanCustomer(p, u, c)
    \/ (\E p \in Callers : SaveAccount(p)) /\ Inserted' <= MaxConcRows
    \/ (\E p \in Callers : SaveCustomer(p)) /\ Inserted' <= MaxConcRows
    \/ Deletes

SpecConc == Init /\ [][NextConc]_vars

----------------------------------------------------------------------------
(* Properties *)

\* A step that is the operation op (every operation writes its name to result).
Ran(op) == result'.op = op

\* C1: no two distinct Accounts have the same email, and Create Account with
\* an email an existing Account holds fails with UniquenessViolation and adds
\* no Account.
C1_EmailUnique ==
    /\ [](\A a1, a2 \in accounts : a1.email = a2.email => a1 = a2)
    /\ [][(Ran("create_account")
            /\ \E a \in accounts : a.email = result'.args.email)
          => ("UniquenessViolation" \in result'.errors /\ accounts' = accounts)]_vars

C1_Witness ==
    /\ result.op = "create_account"
    /\ "UniquenessViolation" \in result.errors
    /\ \E a \in accounts : a.email = result.args.email

\* C2: each Account is referenced by at most one Customer, and Create Customer
\* for an Account that already has a Customer fails with UniquenessViolation
\* and adds no Customer.
C2_OneCustomerPerAccount ==
    /\ [](\A c1, c2 \in customers : c1.user = c2.user => c1 = c2)
    /\ [][(Ran("create_customer")
            /\ \E c \in customers : c.user = result'.args.user)
          => ("UniquenessViolation" \in result'.errors /\ customers' = customers)]_vars

C2_Witness ==
    /\ result.op = "create_customer"
    /\ "UniquenessViolation" \in result.errors
    /\ \E c \in customers : c.user = result.args.user
    /\ \A c \in customers : c.code # result.args.code

\* C3: no two distinct Customers have the same code, and Create Customer with
\* a code an existing Customer holds fails with UniquenessViolation and adds no
\* Customer, also when the Account referenced has no Customer yet.
C3_CodeUnique ==
    /\ [](\A c1, c2 \in customers : c1.code = c2.code => c1 = c2)
    /\ [][(Ran("create_customer")
            /\ \E c \in customers : c.code = result'.args.code)
          => ("UniquenessViolation" \in result'.errors /\ customers' = customers)]_vars

C3_Witness ==
    /\ result.op = "create_customer"
    /\ "UniquenessViolation" \in result.errors
    /\ \E c \in customers : c.code = result.args.code
    /\ result.args.user \in Ids(accounts)
    /\ \A c \in customers : c.user # result.args.user

\* C4: Delete Account(A) removes A, the Customer of A and every Order of that
\* Customer in one step: all are readable until the delete commits and none is
\* readable after it.
C4_DeleteAccountCascades ==
    [][/\ (tx # NoTx /\ ~Ran("delete_account") /\ ~Ran("delete_customer"))
          => UNCHANGED <<accounts, customers, orders>>
       /\ Ran("delete_account") =>
            LET C == {c \in customers : c.user = result'.id}
                O == {o \in orders : o.customer \in Ids(C)}
            IN  /\ result'.id \in Ids(accounts)
                /\ result'.id \notin Ids(accounts')
                /\ C \cap customers' = {}
                /\ O \cap orders' = {}]_vars

C4_Witness ==
    /\ result.op = "delete_account"
    /\ result.deleted.customer = 1
    /\ result.deleted.order >= 2
    /\ accounts # {}

\* C5: Delete Customer(C) removes C and every Order of C, and leaves every
\* Account, every other Customer and every Order of another Customer as it was.
C5_DeleteCustomerFrame ==
    [][Ran("delete_customer") =>
         /\ result'.id \in Ids(customers)
         /\ customers' = {c \in customers : c.id # result'.id}
         /\ orders' = {o \in orders : o.customer # result'.id}
         /\ accounts' = accounts]_vars

C5_Witness ==
    /\ result.op = "delete_customer"
    /\ result.deleted.order >= 1
    /\ orders # {}
    /\ customers # {}
    /\ Cardinality(accounts) = 2

\* C6: no record is orphaned, in the store and inside a cascading delete, also
\* after a crash in the middle of the cascade: every Order names a Customer
\* present and every Customer names an Account present.
NoOrphans(accts, custs, ords) ==
    /\ \A o \in ords : o.customer \in Ids(custs)
    /\ \A c \in custs : c.user \in Ids(accts)

C6_NoOrphans ==
    /\ NoOrphans(accounts, customers, orders)
    /\ tx # NoTx => NoOrphans(tx.wA, tx.wC, tx.wO)

C6_Witness ==
    /\ result.op = "crash"
    /\ result.kind = "account"
    /\ result.stage \in {"customers", "accounts", "commit"}
    /\ orders # {}

\* C7: of two callers that both passed validation with the same code (or the
\* same email), at most one inserts: the save of the other finds the key held,
\* fails and adds nothing, so the keys stay unique under every interleaving.
C7_OneWinner ==
    /\ [](\A c1, c2 \in customers : c1.code = c2.code => c1.id = c2.id)
    /\ [](\A a1, a2 \in accounts : a1.email = a2.email => a1.id = a2.id)
    /\ [][/\ (Ran("save_customer")
               /\ \E c \in customers : c.code = result'.args.code)
             => (result'.errors # {} /\ customers' = customers)
          /\ (Ran("save_account")
               /\ \E a \in accounts : a.email = result'.args.email)
             => (result'.errors # {} /\ accounts' = accounts)]_vars

C7_Witness ==
    /\ result.op = "save_customer"
    /\ result.errors = {"UniquenessViolation"}
    /\ \E c \in customers : c.code = result.args.code /\ c.user # result.args.user
    /\ result.args.user \in Ids(accounts)

\* C8 as stated: every stored amount is a multiple of 0.01 below 10^8 in
\* magnitude, and Create Order with an amount outside that form fails with
\* ValidationError and stores no Order.
C8_Original ==
    [][(Ran("create_order") /\ ~DecimalValid(result'.args.amount))
       => ("ValidationError" \in result'.errors /\ orders' = orders)]_vars

\* C8 amended: every stored amount is a multiple of 0.01 below 10^8 in
\* magnitude.  An amount of 10^8 or more fails with ValidationError and stores
\* no Order; an amount with a third fractional digit fails with ValidationError
\* when the Order is validated before the save, and on a direct save it is
\* stored rounded to the nearest 0.01.
C8_AmountForm ==
    /\ [](\A o \in orders : o.amount.milli % 10 = 0 /\ o.amount.whole < 100000000)
    /\ [][Ran("create_order") =>
            LET a == result'.args.amount
                fine == a.milli % 10 # 0
            IN  /\ a.whole >= 100000000
                   => ("ValidationError" \in result'.errors /\ orders' = orders)
                /\ (fine /\ result'.args.validate)
                   => ("ValidationError" \in result'.errors /\ orders' = orders)
                /\ (fine /\ result'.errors = {})
                   => \E o \in orders' \ orders :
                        LET d == (o.amount.whole - a.whole) * 1000
                                 + (o.amount.milli - a.milli)
                        IN  /\ o.amount.neg = a.neg
                            /\ d >= -5 /\ d <= 5]_vars

C8_Witness ==
    /\ result.op = "create_order"
    /\ result.errors = {}
    /\ result.args.amount.milli % 10 # 0
    /\ orders # {}

\* C9: every Account present in the store has a non-empty phone, since Create
\* Account with an empty phone fails with ValidationError and adds no Account.
C9_PhoneRequired == \A a \in accounts : a.phone # ""

====
